---- MODULE Spec2Model ----
(***************************************************************************)
(* Model of api/services/Ember.js: the naming transformer                  *)
(* (convertModelName, reverseModelName), linkAssociations and              *)
(* buildResponse.                                                          *)
(*                                                                         *)
(* JavaScript values are encoded uniformly:                                *)
(*   - a record object or a bare scalar is a Rec                           *)
(*       [id, num, fields, links]                                          *)
(*     num = TRUE is a bare number whose value is id; its property `.id`   *)
(*     is undefined.  Scalar(0) stands for the value undefined inside an   *)
(*     array.                                                              *)
(*   - the value of a field is a FieldVal [k, v]: k = "absent" (no such    *)
(*     property), "undef" (property set to undefined), "one" (v = <<r>>,   *)
(*     a single object or scalar) or "list" (an array, v its elements).    *)
(*   - links is a map alias -> url, "" where there is no entry; a Rec      *)
(*     whose links are all "" has no `links` property.                     *)
(***************************************************************************)
EXTENDS Integers, Sequences, FiniteSets, TLC

VARIABLES
    pc,                 \* position of the call being modelled
    hooks,              \* sails.config.ember provides the naming overrides
    model,              \* buildResponse argument: identity of the root model
    records,            \* buildResponse argument: [plural, recs]
    associations,       \* buildResponse argument: sequence of descriptors
    sideload,           \* buildResponse argument
    associatedRecords,  \* buildResponse argument: [given, lists]
    json,               \* the Document under construction
    idx,                \* number of records already prepared
    error,              \* "" or the TypeError that aborted the call
    call,               \* naming call under test: [fn, name, argc, flag]
    ret                 \* result of the naming call

vars == <<pc, hooks, model, records, associations, sideload,
          associatedRecords, json, idx, error, call, ret>>

(***************************************************************************)
(* Bounds                                                                  *)
(***************************************************************************)
MaxRecords == 2

(***************************************************************************)
(* External libraries, tabulated on the names the model uses.              *)
(***************************************************************************)
\* lodash _.kebabCase
KebabCase(s) ==
    CASE s = "Post"      -> "post"
      [] s = "Comment"   -> "comment"
      [] s = "BlogPost"  -> "blog-post"
      [] s = "blogPost"  -> "blog-post"
      [] s = "blogpost"  -> "blogpost"
      [] s = "UserGroups" -> "user-groups"
      [] s = "user_group" -> "user-group"
      [] OTHER           -> s

\* pluralize(word)
Pluralize(s) ==
    CASE s = "post"       -> "posts"
      [] s = "comment"    -> "comments"
      [] s = "blog-post"  -> "blog-posts"
      [] s = "blogpost"   -> "blogposts"
      [] s = "user-group" -> "user-groups"
      [] s = "category"   -> "categories"
      [] s = "owner"      -> "owners"
      [] OTHER            -> s

\* pluralize(word, 1)
Singular(s) ==
    CASE s = "posts"       -> "post"
      [] s = "comments"    -> "comment"
      [] s = "blog-posts"  -> "blog-post"
      [] s = "blogposts"   -> "blogpost"
      [] s = "user-groups" -> "user-group"
      [] s = "usergroups"  -> "usergroup"
      [] s = "categories"  -> "category"
      [] s = "owners"      -> "owner"
      [] OTHER             -> s

\* _.camelCase(s).toLowerCase()
CamelLower(s) ==
    CASE s = "blog-posts"  -> "blogposts"
      [] s = "blog-post"   -> "blogpost"
      [] s = "BlogPost"    -> "blogpost"
      [] s = "blogPost"    -> "blogpost"
      [] s = "user-groups" -> "usergroups"
      [] s = "user-group"  -> "usergroup"
      [] s = "UserGroups"  -> "usergroups"
      [] s = "user_group"  -> "usergroup"
      [] s = "Post"        -> "post"
      [] s = "Comment"     -> "comment"
      [] OTHER             -> s

\* An application-supplied sails.config.ember.convertModelName: it keeps the
\* name as given and marks the number, so its result shows both arguments.
OverrideConvert(name, plural) ==
    IF plural THEN name \o "_list" ELSE name \o "_item"

\* An application-supplied sails.config.ember.reverseModelName, the inverse
\* of OverrideConvert on the registry's names.
OverrideReverse(key, singular) ==
    CASE key = "Post_list"    -> IF singular THEN "post" ELSE "posts"
      [] key = "Comment_list" -> IF singular THEN "comment" ELSE "comments"
      [] OTHER -> IF singular THEN key \o "_one" ELSE key \o "_all"

(***************************************************************************)
(* Naming transformer                                                      *)
(***************************************************************************)
\* convertModelName without the default of line 18
convertModelNameNoDefault(cfg, modelName, argc, flag) ==
    IF cfg
    THEN OverrideConvert(modelName, flag)
    ELSE IF flag THEN Pluralize(KebabCase(modelName)) ELSE KebabCase(modelName)

\* argc is arguments.length; flag is the second argument when argc = 2.
convertModelName(cfg, modelName, argc, flag) ==
    LET convertToPlural == IF argc < 2 THEN TRUE ELSE flag
    IN  IF cfg
        THEN OverrideConvert(modelName, convertToPlural)
        ELSE IF convertToPlural
             THEN Pluralize(KebabCase(modelName))
             ELSE KebabCase(modelName)

reverseModelName(cfg, transformedModelName, argc, flag) ==
    LET convertToSingular == IF argc < 2 THEN TRUE ELSE flag
    IN  IF cfg
        THEN OverrideReverse(transformedModelName, convertToSingular)
        ELSE IF convertToSingular
             THEN Singular(CamelLower(transformedModelName))
             ELSE CamelLower(transformedModelName)

(***************************************************************************)
(* Values                                                                  *)
(***************************************************************************)
Aliases == {"comments", "posts", "pinned"}

Absent == [k |-> "absent", v |-> <<>>]
Undef  == [k |-> "undef",  v |-> <<>>]
One(r) == [k |-> "one",    v |-> <<r>>]
List(s) == [k |-> "list",  v |-> s]

NoFields == [a \in Aliases |-> Absent]
NoLinks  == [a \in Aliases |-> ""]

\* a bare number n (0: undefined)
Scalar(n) == [id |-> n, num |-> TRUE, fields |-> NoFields, links |-> NoLinks]

\* a record object with the given fields
Obj(n, f) == [id |-> n, num |-> FALSE, fields |-> f, links |-> NoLinks]

\* record.id: undefined (0) on a bare number
IdOf(r) == IF r.num THEN 0 ELSE r.id

\* String(record.id) inside a concatenation
IdText(r) == IF IdOf(r) = 0 THEN "undefined" ELSE ToString(IdOf(r))

\* JavaScript truthiness of a field value
Truthy(fv) ==
    \/ fv.k = "list"
    \/ fv.k = "one" /\ (~fv.v[1].num \/ fv.v[1].id # 0)

(***************************************************************************)
(* Collaborators: sails.models and sails.config.blueprints.prefix          *)
(***************************************************************************)
Prefix == "/api"

Models == {"post", "comment"}

SailsModels ==
    [m \in Models |->
        IF m = "post"
        THEN [identity |-> "post", globalId |-> "Post",
              associations |->
                << [alias |-> "comments", type |-> "collection"],
                   [alias |-> "pinned",   type |-> "model"] >>]
        ELSE [identity |-> "comment", globalId |-> "Comment",
              associations |->
                << [alias |-> "posts", type |-> "collection"] >>]]

(***************************************************************************)
(* linkAssociations                                                        *)
(***************************************************************************)
\* the links object built for one record (lines 54-59)
LinksFor(cfg, m, record) ==
    LET modelPlural == convertModelName(cfg, m.identity, 1, TRUE)
        isColl(a) == \E i \in 1..Len(m.associations) :
                        /\ m.associations[i].alias = a
                        /\ m.associations[i].type = "collection"
    IN  [a \in Aliases |->
            IF isColl(a)
            THEN Prefix \o "/" \o modelPlural \o "/" \o IdText(record) \o "/" \o a
            ELSE ""]

\* lines 53-64 for one record; assigning a property to a bare number has no
\* effect
LinkRecord(cfg, m, record) ==
    LET links == LinksFor(cfg, m, record)
    IN  IF (\E a \in Aliases : links[a] # "") /\ ~record.num
        THEN [record EXCEPT !.links = links]
        ELSE record

\* recs is the array after line 50 (a single record is wrapped)
linkAssociations(cfg, m, recs) ==
    [i \in 1..Len(recs) |-> LinkRecord(cfg, m, recs[i])]

(***************************************************************************)
(* Inputs of buildResponse                                                 *)
(***************************************************************************)
\* an association descriptor of req.options.associations; collection, model
\* and through are "" where the descriptor has no such property
Assoc(alias, type, collection, mdl, via, through, include) ==
    [alias |-> alias, type |-> type, collection |-> collection, model |-> mdl,
     via |-> via, through |-> through, include |-> include]

Includes == {"record", "link", "index", "none"}

AssocMenu ==
    \* has-many, inverse named after the root model
    { Assoc("comments", "collection", "comment", "", "posts", "", inc) :
        inc \in Includes }
    \* has-many through a join model, inverse named differently
    \cup { Assoc("comments", "collection", "comment", "", "owner",
                 "postcomment", "index") }
    \* has-many whose alias is the plural of a model name
    \cup { Assoc("posts", "collection", x[1], "", "owner", "", x[2]) :
             x \in { <<"comment", "record">>, <<"post", "record">>,
                     <<"post", "link">>, <<"comment", "index">> } }
    \* belongs-to
    \cup { Assoc("pinned", "model", "", x[1], "", "", x[2]) :
             x \in { <<"comment", "record">>, <<"post", "record">>,
                     <<"comment", "link">>, <<"comment", "none">> } }
    \* a descriptor of unknown kind
    \cup { Assoc("pinned", "tagset", "comment", "", "", "", "record") }

\* sequences of descriptors with distinct aliases, at most two
AssocLists ==
    {<<>>} \cup { <<a>> : a \in AssocMenu }
           \cup { p \in AssocMenu \X AssocMenu : p[1].alias # p[2].alias }

\* the collection alias of the registry's model t: a nested record of t may
\* itself hold an identifier list under it
OwnAlias(t) == IF t = "post" THEN "comments" ELSE "posts"

Plain(n) == Obj(n, NoFields)
Held(n, t) == Obj(n, [NoFields EXCEPT ![OwnAlias(t)] = List(<<Scalar(1)>>)])

\* the value under assoc's alias as it arrives from the query
FieldMenu(assoc) ==
    LET t == IF assoc.collection # "" THEN assoc.collection ELSE assoc.model
    IN  IF assoc.type = "model"
        THEN IF assoc.include = "record"
             THEN { Absent, One(Scalar(2)), One(Held(2, t)) }
             ELSE { Absent, One(Scalar(2)) }
        ELSE IF assoc.include = "record"
             THEN { Absent, List(<<>>),
                    List(<<Held(2, t), Plain(1), Plain(2)>>) }
             ELSE { Absent, List(<<Plain(1)>>) }

\* the field maps of one input record
FieldMaps(assocs) ==
    IF Len(assocs) = 0 THEN { NoFields }
    ELSE IF Len(assocs) = 1
    THEN { [NoFields EXCEPT ![assocs[1].alias] = x] : x \in FieldMenu(assocs[1]) }
    ELSE { [NoFields EXCEPT ![assocs[1].alias] = x, ![assocs[2].alias] = y] :
             x \in FieldMenu(assocs[1]), y \in FieldMenu(assocs[2]) }

\* arrays of n records; the i-th record has id i
RECURSIVE RecordArrays(_, _)
RecordArrays(assocs, n) ==
    IF n = 0 THEN { <<>> }
    ELSE { Append(s, Obj(n, f)) :
             s \in RecordArrays(assocs, n - 1), f \in FieldMaps(assocs) }

\* records is an array (plural) of up to MaxRecords records, or one record
RecordInputs(assocs) ==
    { [plural |-> TRUE, recs |-> s] :
        s \in UNION { RecordArrays(assocs, n) : n \in 0..MaxRecords } }
    \cup { [plural |-> FALSE, recs |-> s] : s \in RecordArrays(assocs, 1) }

\* a row of a join index
RowFields == {"id", "post", "owner", "comment"}
Row(id, post, owner, comment) ==
    [f \in RowFields |->
        CASE f = "id" -> id [] f = "post" -> post
          [] f = "owner" -> owner [] OTHER -> comment]

RowLists ==
    { <<>>,
      << Row(5, 1, 2, 9), Row(6, 1, 1, 10), Row(7, 2, 1, 9) >>,
      << Row(5, 2, 1, 9), Row(5, 2, 1, 9), Row(6, 1, 2, 8) >> }

NoIndex == [given |-> FALSE, lists |-> [a \in Aliases |-> Absent]]

\* associatedRecords: undefined, or a map holding a row list for some of the
\* index-policy aliases
IndexInputs(assocs) ==
    LET idxAliases == { assocs[i].alias : i \in
                          { j \in 1..Len(assocs) : assocs[j].include = "index" } }
    IN  IF idxAliases = {} THEN { NoIndex }
        ELSE { NoIndex } \cup
             { [given |-> TRUE,
                lists |-> [a \in Aliases |->
                             IF a \in idxAliases /\ a \in has
                             THEN List(rows) ELSE Absent]] :
                 has \in SUBSET idxAliases, rows \in RowLists }

(***************************************************************************)
(* buildResponse                                                           *)
(***************************************************************************)
\* json[k] = v, adding the key when it is new
Put(j, k, v) == [x \in DOMAIN j \cup {k} |-> IF x = k THEN v ELSE j[x]]

\* assoc.collection || assoc.model
Target(assoc) == IF assoc.collection # "" THEN assoc.collection ELSE assoc.model

\* assocModelIdentifier (lines 92 and 107)
AssocKey(cfg, assoc) ==
    convertModelName(cfg, SailsModels[Target(assoc)].globalId, 1, TRUE)

\* documentIdentifier (lines 81-82)
DocumentIdentifier(cfg, m) ==
    convertModelName(cfg, SailsModels[m].globalId, 1, TRUE)

\* lines 89-98 for one descriptor
RegisterBucket(cfg, j, assoc) ==
    IF assoc.include = "record" /\ assoc.alias \notin DOMAIN j
    THEN Put(j, AssocKey(cfg, assoc), <<>>)
    ELSE j

\* lines 83-99: the Document before any record is prepared
RECURSIVE RegisterFrom(_, _, _, _)
RegisterFrom(cfg, j, assocs, i) ==
    IF i > Len(assocs) THEN j
    ELSE RegisterFrom(cfg, RegisterBucket(cfg, j, assocs[i]), assocs, i + 1)

InitialDocument(cfg, m, assocs, sl) ==
    LET j0 == Put(<<>>, DocumentIdentifier(cfg, m), <<>>)
    IN  IF sl THEN RegisterFrom(cfg, j0, assocs, 1) ELSE j0

\* lines 111-115 without the replacement by the declared inverse name
ViaOfRootOnly(m, assoc) == KebabCase(SailsModels[m].globalId)

\* the inverse field name (lines 111-115)
ViaOf(m, assoc) ==
    LET via == KebabCase(SailsModels[m].globalId)
    IN  IF via # Singular(assoc.via) THEN Singular(assoc.via) ELSE via

\* rec[f] of a join-index row, undefined (0) when the row has no such field
RowGet(row, f) == IF f \in DOMAIN row THEN row[f] ELSE 0

\* the _.reduce of lines 127-130 (through) and 132-135
RECURSIVE IndexReduce(_, _, _, _, _)
IndexReduce(rows, i, via, id, pick) ==
    IF i > Len(rows) THEN <<>>
    ELSE LET rest == IndexReduce(rows, i + 1, via, id, pick)
         IN  IF RowGet(rows[i], via) = id
             THEN <<Scalar(RowGet(rows[i], pick))>> \o rest
             ELSE rest

\* the _.reduce of lines 120-123
IdList(recs) == [i \in 1..Len(recs) |-> Scalar(IdOf(recs[i]))]

\* record[assoc.alias].length, undefined (0) on anything but an array
LengthOf(fv) == IF fv.k = "list" THEN Len(fv.v) ELSE 0

\* lines 116-124.  st = [rec, links, json, err]
SideloadCollection(cfg, sl, st, assoc) ==
    LET fv  == st.rec.fields[assoc.alias]
        key == AssocKey(cfg, assoc)
    IN  IF sl /\ assoc.include = "record" /\ Truthy(fv) /\ LengthOf(fv) > 0
        THEN IF key \notin DOMAIN st.json
             THEN [st EXCEPT !.err = "TypeError:118"]
             ELSE [st EXCEPT
                     !.json[key] = @ \o linkAssociations(
                                      cfg, SailsModels[assoc.collection], fv.v),
                     !.rec.fields[assoc.alias] = List(IdList(fv.v))]
        ELSE st

\* lines 125-137
IndexCollection(m, ar, st, assoc) ==
    IF assoc.include # "index" THEN st
    ELSE IF ~ar.given THEN [st EXCEPT !.err = "TypeError:125"]
    ELSE IF ~Truthy(ar.lists[assoc.alias]) THEN st
    ELSE LET rows == ar.lists[assoc.alias].v
             via  == ViaOf(m, assoc)
             pick == IF assoc.through # "" THEN assoc.collection ELSE "id"
         IN  [st EXCEPT !.rec.fields[assoc.alias] =
                List(IndexReduce(rows, 1, via, IdOf(st.rec), pick))]

\* lines 139-142 without the delete of line 141
LinkCollectionKeepField(cfg, m, st, assoc) ==
    IF assoc.include = "link"
    THEN [st EXCEPT
            !.links[assoc.alias] =
                Prefix \o "/" \o DocumentIdentifier(cfg, m) \o "/"
                       \o IdText(st.rec) \o "/" \o assoc.alias]
    ELSE st

\* lines 139-142
LinkCollection(cfg, m, st, assoc) ==
    IF assoc.include = "link"
    THEN [st EXCEPT
            !.links[assoc.alias] =
                Prefix \o "/" \o DocumentIdentifier(cfg, m) \o "/"
                       \o IdText(st.rec) \o "/" \o assoc.alias,
            !.rec.fields[assoc.alias] = Absent]
    ELSE st

\* lines 109-144
CollectionBranch(cfg, m, sl, ar, st, assoc) ==
    LET s1 == SideloadCollection(cfg, sl, st, assoc)
        s2 == IF s1.err # "" THEN s1 ELSE IndexCollection(m, ar, s1, assoc)
    IN  IF s2.err # "" THEN s2 ELSE LinkCollection(cfg, m, s2, assoc)

\* lines 145-157
ModelBranch(cfg, sl, st, assoc) ==
    LET fv  == st.rec.fields[assoc.alias]
        key == AssocKey(cfg, assoc)
        linkedRecords == linkAssociations(cfg, SailsModels[assoc.model], fv.v)
    IN  IF Truthy(fv) /\ sl /\ assoc.include = "record"
        THEN IF key \notin DOMAIN st.json
             THEN [st EXCEPT !.err = "TypeError:149"]
             ELSE IF Len(linkedRecords) = 0
             THEN [st EXCEPT !.err = "TypeError:150"]
             ELSE [st EXCEPT
                     !.json[key] = @ \o linkedRecords,
                     !.rec.fields[assoc.alias] =
                        IF IdOf(linkedRecords[1]) = 0 THEN Undef
                        ELSE One(Scalar(IdOf(linkedRecords[1])))]
        ELSE st

\* the body of the _.each of lines 106-158 for one descriptor
AssocStep(cfg, m, sl, ar, st, assoc) ==
    IF st.err # "" THEN st
    ELSE IF assoc.type = "collection"
    THEN CollectionBranch(cfg, m, sl, ar, st, assoc)
    ELSE IF assoc.type = "model"
    THEN ModelBranch(cfg, sl, st, assoc)
    ELSE st

RECURSIVE AssocsFrom(_, _, _, _, _, _, _)
AssocsFrom(cfg, m, sl, ar, st, assocs, i) ==
    IF i > Len(assocs) THEN st
    ELSE AssocsFrom(cfg, m, sl, ar,
                    AssocStep(cfg, m, sl, ar, st, assocs[i]), assocs, i + 1)

\* lines 101-163: the clone of record, and json as the call leaves it.  The
\* clone of line 103 is shallow: it holds the record's own fields, the nested
\* records among them being the caller's.
prepareOneRecord(cfg, m, sl, ar, assocs, j, record) ==
    LET st0 == [rec |-> record, links |-> NoLinks, json |-> j, err |-> ""]
        st  == AssocsFrom(cfg, m, sl, ar, st0, assocs, 1)
    IN  IF st.err = "" /\ (\E a \in Aliases : st.links[a] # "")
        THEN [st EXCEPT !.rec.links = st.links]
        ELSE st

\* _.uniq(array, function (record) { return record.id; }): the first entry of
\* every computed id, bare numbers all computing undefined
RECURSIVE UniqFrom(_, _, _)
UniqFrom(array, i, seen) ==
    IF i > Len(array) THEN <<>>
    ELSE IF IdOf(array[i]) \in seen
         THEN UniqFrom(array, i + 1, seen)
         ELSE <<array[i]>> \o UniqFrom(array, i + 1, seen \cup {IdOf(array[i])})

\* _.uniq without its iteratee: entries compared as wholes
UniqWhole(array) ==
    LET first(i) == \A j \in 1..(i - 1) : array[j] # array[i]
        RECURSIVE from(_)
        from(i) == IF i > Len(array) THEN <<>>
                   ELSE IF first(i) THEN <<array[i]>> \o from(i + 1)
                   ELSE from(i + 1)
    IN  from(1)

Uniq(array) == UniqFrom(array, 1, {})

\* lines 177-186 without the delete of line 180
FilterDuplicatesKeepEmpty(doc, j) ==
    [k \in DOMAIN j |-> IF k = doc THEN j[k] ELSE Uniq(j[k])]

\* lines 177-186
FilterDuplicates(doc, j) ==
    LET keep == { k \in DOMAIN j : k = doc \/ Len(j[k]) # 0 }
    IN  [k \in keep |-> IF k = doc THEN j[k] ELSE Uniq(j[k])]

\* lines 189-197 for one key: "" or the TypeError of linking with an unknown
\* model
LinkPassError(cfg, doc, j) ==
    IF \E k \in DOMAIN j :
          /\ k # doc /\ Len(j[k]) > 0 /\ ~j[k][1].num
          /\ reverseModelName(cfg, k, 1, TRUE) \notin Models
    THEN "TypeError:51" ELSE ""

LinkSideloaded(cfg, doc, j) ==
    [k \in DOMAIN j |->
        IF k # doc /\ Len(j[k]) > 0 /\ ~j[k][1].num
           /\ reverseModelName(cfg, k, 1, TRUE) \in Models
        THEN linkAssociations(
                cfg, SailsModels[reverseModelName(cfg, k, 1, TRUE)], j[k])
        ELSE j[k]]

\* line 168 with the receiver of concat read after prepareOneRecord ran
RootAfterLate(plural, before, after, rec) ==
    IF plural THEN after \o <<rec>> ELSE <<rec>>

\* the array assigned to json[documentIdentifier] by line 168 (plural) or
\* 171: before is the array as prepareOneRecord found it, after as it left it.
\* In `json[d] = json[d].concat(prepareOneRecord(record))` the receiver of
\* concat is evaluated before the argument.
RootAfter(plural, before, after, rec) ==
    IF plural THEN before \o <<rec>> ELSE <<rec>>

(***************************************************************************)
(* The call of buildResponse as a state machine                            *)
(***************************************************************************)
NoCall == [fn |-> "", name |-> "", argc |-> 0, flag |-> FALSE]

Init ==
    /\ pc = "start"
    /\ hooks \in BOOLEAN
    /\ model \in Models
    /\ sideload \in BOOLEAN
    /\ associations \in AssocLists
    /\ records \in RecordInputs(associations)
    /\ associatedRecords \in IndexInputs(associations)
    /\ json = <<>>
    /\ idx = 0
    /\ error = ""
    /\ call = NoCall
    /\ ret = ""

\* lines 77-99
Begin ==
    /\ pc = "start"
    /\ json' = InitialDocument(hooks, model, associations, sideload)
    /\ pc' = "records"
    /\ UNCHANGED <<hooks, model, records, associations, sideload,
                   associatedRecords, idx, error, call, ret>>

\* one round of lines 166-172: prepareOneRecord and the assignment of its
\* result.  The array json[documentIdentifier] that concat extends is read
\* before prepareOneRecord runs.
PrepareRecord ==
    /\ pc = "records"
    /\ idx < Len(records.recs)
    /\ LET doc == DocumentIdentifier(hooks, model)
           st  == prepareOneRecord(hooks, model, sideload, associatedRecords,
                                   associations, json, records.recs[idx + 1])
       IN  IF st.err # ""
           THEN /\ pc' = "threw"
                /\ error' = st.err
                /\ json' = st.json
                /\ idx' = idx
           ELSE /\ pc' = "records"
                /\ error' = ""
                /\ idx' = idx + 1
                /\ json' = [st.json EXCEPT
                              ![doc] = RootAfter(records.plural, json[doc],
                                                 st.json[doc], st.rec)]
    /\ UNCHANGED <<hooks, model, records, associations, sideload,
                   associatedRecords, call, ret>>

\* lines 174-200
Finish ==
    /\ pc = "records"
    /\ idx = Len(records.recs)
    /\ LET doc == DocumentIdentifier(hooks, model)
           j1  == FilterDuplicates(doc, json)
       IN  IF ~sideload
           THEN pc' = "done" /\ json' = json /\ error' = ""
           ELSE IF LinkPassError(hooks, doc, j1) # ""
           THEN /\ pc' = "threw"
                /\ json' = j1
                /\ error' = LinkPassError(hooks, doc, j1)
           ELSE /\ pc' = "done"
                /\ json' = LinkSideloaded(hooks, doc, j1)
                /\ error' = ""
    /\ UNCHANGED <<hooks, model, records, associations, sideload,
                   associatedRecords, idx, call, ret>>

Next == Begin \/ PrepareRecord \/ Finish

Spec == Init /\ [][Next]_vars

(***************************************************************************)
(* The naming transformer called on its own                                *)
(***************************************************************************)
Names == {"Post", "Comment", "BlogPost", "blogPost", "blogpost",
          "UserGroups", "user_group", "category", "posts", "comments",
          "blog-posts", "user-groups", "categories"}

InitNaming ==
    /\ pc = "naming"
    /\ hooks \in BOOLEAN
    /\ call \in { [fn |-> f, name |-> n, argc |-> 1, flag |-> FALSE] :
                    f \in {"convertModelName", "reverseModelName"}, n \in Names }
           \cup { [fn |-> f, name |-> n, argc |-> 2, flag |-> b] :
                    f \in {"convertModelName", "reverseModelName"}, n \in Names,
                    b \in BOOLEAN }
    /\ ret = ""
    /\ model = "post"
    /\ sideload = FALSE
    /\ associations = <<>>
    /\ records = [plural |-> TRUE, recs |-> <<>>]
    /\ associatedRecords = NoIndex
    /\ json = <<>>
    /\ idx = 0
    /\ error = ""

CallConvert ==
    /\ pc = "naming"
    /\ call.fn = "convertModelName"
    /\ ret' = convertModelName(hooks, call.name, call.argc, call.flag)
    /\ pc' = "named"
    /\ UNCHANGED <<hooks, model, records, associations, sideload,
                   associatedRecords, json, idx, error, call>>

CallReverse ==
    /\ pc = "naming"
    /\ call.fn = "reverseModelName"
    /\ ret' = reverseModelName(hooks, call.name, call.argc, call.flag)
    /\ pc' = "named"
    /\ UNCHANGED <<hooks, model, records, associations, sideload,
                   associatedRecords, json, idx, error, call>>

NextNaming == CallConvert \/ CallReverse

SpecNaming == InitNaming /\ [][NextNaming]_vars

(***************************************************************************)
(* Properties                                                              *)
(***************************************************************************)
Doc == DocumentIdentifier(hooks, model)

Returned == pc = "done"

NumRecords == Len(records.recs)
NumAssocs == Len(associations)

\* what preparing record i appends to a sideload bucket for descriptor j
Sideloads(i, j) ==
    LET a  == associations[j]
        fv == records.recs[i].fields[a.alias]
    IN  IF /\ sideload
           /\ a.include = "record"
           /\ \/ a.type = "collection" /\ fv.k = "list" /\ Len(fv.v) > 0
              \/ a.type = "model" /\ Truthy(fv)
        THEN fv.v ELSE <<>>

\* everything appended to bucket k, in processing order: records in input
\* order, descriptors in their order, nested records in nested order
RECURSIVE AppendedFrom(_, _)
AppendedFrom(k, p) ==
    IF NumAssocs = 0 \/ p > NumRecords * NumAssocs THEN <<>>
    ELSE LET i == ((p - 1) \div NumAssocs) + 1
             j == ((p - 1) % NumAssocs) + 1
         IN  (IF AssocKey(hooks, associations[j]) = k
              THEN Sideloads(i, j) ELSE <<>>) \o AppendedFrom(k, p + 1)

AppendedTo(k) == AppendedFrom(k, 1)

StripLinks(e) == [e EXCEPT !.links = NoLinks]

C4_NoEmptyBuckets ==
    Returned =>
        /\ \A k \in DOMAIN json \ {Doc} : Len(json[k]) > 0
        /\ \A j \in 1..NumAssocs :
              LET k == AssocKey(hooks, associations[j])
              IN  (k # Doc /\ AppendedTo(k) = <<>>) => k \notin DOMAIN json
        /\ ~sideload => DOMAIN json = {Doc}

\* a bucket was registered, received nothing and is gone
C4_Witness ==
    /\ Returned /\ sideload
    /\ \E k \in DOMAIN InitialDocument(hooks, model, associations, sideload) :
          k # Doc /\ k \notin DOMAIN json

\* C7: the sequence under the root document key has one entry per input
\* record, in input order, the i-th built from the i-th input record (same
\* id, every field no descriptor names unchanged); a single record yields a
\* one-element sequence; without descriptors the clone equals the record.
C7_RootOnePerRecord ==
    Returned =>
        /\ Doc \in DOMAIN json
        /\ Len(json[Doc]) = NumRecords
        /\ ~records.plural => Len(json[Doc]) = 1
        /\ \A i \in 1..NumRecords :
              /\ ~json[Doc][i].num
              /\ json[Doc][i].id = records.recs[i].id
              /\ \A a \in Aliases :
                    (\A j \in 1..NumAssocs : associations[j].alias # a)
                        => json[Doc][i].fields[a] = records.recs[i].fields[a]
              /\ NumAssocs = 0 => json[Doc][i] = records.recs[i]

\* two records whose nested records were sideloaded under the root's own key
C7_Witness ==
    /\ Returned /\ sideload /\ records.plural /\ NumRecords = 2
    /\ \E j \in 1..NumAssocs :
          /\ AssocKey(hooks, associations[j]) = Doc
          /\ Sideloads(1, j) # <<>>
          /\ Sideloads(2, j) # <<>>

\* C8: convertModelName returns override(identity, pluralize) when an
\* override is configured and otherwise the kebab-case of identity, plural
\* exactly when pluralize is true; pluralize is true when omitted.
C8_ConvertModelName ==
    (pc = "named" /\ call.fn = "convertModelName") =>
        LET pluralize == IF call.argc < 2 THEN TRUE ELSE call.flag
        IN  /\ hooks => ret = OverrideConvert(call.name, pluralize)
            /\ (~hooks /\ pluralize) => ret = Pluralize(KebabCase(call.name))
            /\ (~hooks /\ ~pluralize) => ret = KebabCase(call.name)
            /\ (~hooks /\ call.name = "blogPost") =>
                  ret = IF pluralize THEN "blog-posts" ELSE "blog-post"

\* the override called with the flag omitted
C8_Witness ==
    /\ pc = "named" /\ call.fn = "convertModelName"
    /\ hooks /\ call.argc = 1 /\ call.name = "BlogPost"
    /\ ret = "BlogPost_list"

\* the hyperlink of a root record for an alias
RootLink(i, alias) ==
    Prefix \o "/" \o Doc \o "/" \o ToString(records.recs[i].id) \o "/" \o alias

\* C2 as stated: for every root record of the returned Document and every
\* descriptor of either kind whose policy is "link", the record has no field
\* under the alias and its links map holds the hyperlink of that alias.
C2_LinkPolicyEitherKind ==
    Returned =>
        \A i \in 1..NumRecords : \A j \in 1..NumAssocs :
            LET a == associations[j]
            IN  (a.include = "link" /\ a.type \in {"collection", "model"}) =>
                    /\ json[Doc][i].fields[a.alias] = Absent
                    /\ json[Doc][i].links[a.alias] = RootLink(i, a.alias)

\* C2 amended: the same for every collection-reference descriptor whose
\* policy is "link".
C2_LinkPolicyCollection ==
    Returned =>
        \A i \in 1..NumRecords : \A j \in 1..NumAssocs :
            LET a == associations[j]
            IN  (a.include = "link" /\ a.type = "collection") =>
                    /\ json[Doc][i].fields[a.alias] = Absent
                    /\ json[Doc][i].links[a.alias] = RootLink(i, a.alias)

\* a populated collection field was replaced by its hyperlink
C2_Witness ==
    /\ Returned
    /\ \E i \in 1..NumRecords : \E j \in 1..NumAssocs :
          /\ associations[j].include = "link"
          /\ associations[j].type = "collection"
          /\ records.recs[i].fields[associations[j].alias] # Absent
          /\ json[Doc][i].links[associations[j].alias] # ""

\* C3: in every record of the returned Document, root or sideloaded, an
\* alias with an entry in the record's links map holds no inline value in
\* the record.
C3_LinkExcludesInline ==
    Returned =>
        \A k \in DOMAIN json : \A p \in 1..Len(json[k]) : \A a \in Aliases :
            json[k][p].links[a] # "" =>
                json[k][p].fields[a].k \in {"absent", "undef"}

\* the list a scan of the join index yields for root record i
ExpectedScan(i, a) ==
    LET rows == associatedRecords.lists[a.alias].v
        kept == SelectSeq(rows,
                    LAMBDA r : RowGet(r, Singular(a.via)) = records.recs[i].id)
    IN  [p \in 1..Len(kept) |->
            Scalar(IF a.through # "" THEN RowGet(kept[p], a.collection)
                   ELSE RowGet(kept[p], "id"))]

\* C5: for every root record and every collection-reference descriptor with
\* policy "index" whose alias has a join-index list, the output field is the
\* list of the rows whose inverse-key field equals the record's id, in scan
\* order and with duplicates, each giving its target-collection field when
\* the descriptor has a join model and its own id otherwise.
C5_IndexScan ==
    Returned =>
        \A i \in 1..NumRecords : \A j \in 1..NumAssocs :
            LET a == associations[j]
            IN  (/\ a.type = "collection" /\ a.include = "index"
                 /\ associatedRecords.given
                 /\ associatedRecords.lists[a.alias].k = "list") =>
                    json[Doc][i].fields[a.alias] = List(ExpectedScan(i, a))

\* a through-association whose scan kept some rows and dropped others, the
\* inverse name differing from the root model's
C5_Witness ==
    /\ Returned
    /\ \E i \in 1..NumRecords : \E j \in 1..NumAssocs :
          LET a == associations[j]
          IN  /\ a.type = "collection" /\ a.include = "index"
              /\ a.through # ""
              /\ associatedRecords.given
              /\ associatedRecords.lists[a.alias].k = "list"
              /\ Len(ExpectedScan(i, a)) > 0
              /\ Len(ExpectedScan(i, a)) < Len(associatedRecords.lists[a.alias].v)
              /\ json[Doc][i].fields[a.alias] = List(ExpectedScan(i, a))

\* record i holds a non-empty list of nested records under descriptor j, a
\* collection-reference with policy "record"
EmbedsList(i, j) ==
    LET a  == associations[j]
        fv == records.recs[i].fields[a.alias]
    IN  /\ a.type = "collection" /\ a.include = "record"
        /\ fv.k = "list" /\ Len(fv.v) > 0
        /\ \A p \in 1..Len(fv.v) : ~fv.v[p].num

\* the ids nested under collection-reference descriptors of policy "record"
\* whose bucket is k, over all root records
NestedIds(k) ==
    UNION { { records.recs[i].fields[associations[j].alias].v[p].id :
                p \in 1..Len(records.recs[i].fields[associations[j].alias].v) } :
            <<i, j>> \in { x \in (1..NumRecords) \X (1..NumAssocs) :
                             /\ EmbedsList(x[1], x[2])
                             /\ AssocKey(hooks, associations[x[2]]) = k } }

\* C6: with sideload = true, a collection-reference field of policy "record"
\* holding a non-empty list of nested records becomes the list of their ids
\* in nested order, and the bucket of the target model holds exactly one
\* record for each distinct id of those nested lists and no other record.
C6_EmbeddedCollection ==
    (Returned /\ sideload) =>
        \A i \in 1..NumRecords : \A j \in 1..NumAssocs :
            EmbedsList(i, j) =>
                LET a  == associations[j]
                    fv == records.recs[i].fields[a.alias]
                    k  == AssocKey(hooks, a)
                IN  /\ json[Doc][i].fields[a.alias] = List(IdList(fv.v))
                    /\ k \in DOMAIN json
                    /\ { json[k][p].id : p \in 1..Len(json[k]) } = NestedIds(k)
                    /\ Len(json[k]) = Cardinality(NestedIds(k))
                    /\ \A p \in 1..Len(json[k]) : ~json[k][p].num

\* C9: with sideload = true, a single-reference field of policy "record"
\* holding a value becomes the id of the referenced record, and the bucket of
\* the target model holds an entry for that record.
C9_EmbeddedReference ==
    (Returned /\ sideload) =>
        \A i \in 1..NumRecords : \A j \in 1..NumAssocs :
            LET a  == associations[j]
                fv == records.recs[i].fields[a.alias]
                k  == AssocKey(hooks, a)
            IN  (a.type = "model" /\ a.include = "record" /\ Truthy(fv)) =>
                    /\ json[Doc][i].fields[a.alias] = One(Scalar(fv.v[1].id))
                    /\ k \in DOMAIN json
                    /\ \E p \in 1..Len(json[k]) :
                          StripLinks(json[k][p]) = fv.v[1]

\* C10: with sideload = true, before any record is processed an empty bucket
\* exists under the target model's document key of every descriptor of
\* policy "record", so that no append addresses an unregistered bucket.
C10_BucketsRegistered ==
    /\ (pc = "records" /\ idx = 0 /\ sideload) =>
          \A j \in 1..NumAssocs :
              associations[j].include = "record" =>
                  /\ AssocKey(hooks, associations[j]) \in DOMAIN json
                  /\ json[AssocKey(hooks, associations[j])] = <<>>
    /\ error \notin {"TypeError:118", "TypeError:149"}

====
